---------------------------- MODULE Spec2Model ----------------------------
(***************************************************************************)
(* A model of the shop-agent repository:                                   *)
(*   - shop_agent/policy.py        PolicyEngine.evaluate                   *)
(*   - shop_agent/orchestrator.py  DialogManager.handle_turn               *)
(* Optional (nullable) Python values are modelled as sequences of length   *)
(* at most one: None is << >> and a value v is << v >>.  Percentages are   *)
(* whole numbers of percent.  A message is the sequence of its characters. *)
(***************************************************************************)
EXTENDS Integers, Sequences, FiniteSets, TLC

VARIABLES
    policies,   \* PolicyEngine.policies: the table loaded at start-up
    ev,         \* the last PolicyEngine.evaluate call: its arguments and result
    case,       \* the Case row handle_turn works on
    out,        \* what the last handle_turn call returned (or that it raised)
    turns,      \* the number of handle_turn calls that returned
    customer,   \* the kind of conversation: which messages and LLM answers occur
    inflight,   \* per request handler running at the same time: its progress
    saved       \* a SessionState, the JSON text written for it and what was read back

vars == <<policies, ev, case, out, turns, customer, inflight, saved>>

None == << >>
Some(v) == << v >>
IsNone(o) == o = << >>
Val(o) == o[1]

Min(a, b) == IF a <= b THEN a ELSE b

(***************************************************************************)
(*                       policy.py : the policy engine                     *)
(***************************************************************************)

\* The largest days_since_purchase an evaluation is called with.
MaxDays == 4

KnownCategories == {"Electronics", "Headphones & Audio", "Phones", "Furniture"}
PolicyCategories == KnownCategories \cup {"Toys"}
PolicyIntents == {"refund", "return", "replacement", "discount", "unknown"}
DaysArgs == {None} \cup {Some(d) : d \in 0..MaxDays}
OpenedArgs == {None, Some(TRUE), Some(FALSE)}
RequestedArgs == {None, Some(-5), Some(0), Some(8), Some(12), Some(13), Some(50)}

\* CategoryPolicy (the name is the key of the table).
CategoryPolicy(window, allowed, cap, tiers) ==
    [return_window_days |-> window, allowed_outcomes |-> allowed,
     discount_cap_percent |-> cap, tiered_discounts |-> tiers]

Tier(max_days, percent) == [max_days |-> max_days, percent |-> percent]

\* The policy tables the engine is constructed with.  The second table has a
\* tier above its category's cap, a cap of 0 and a category that allows nothing
\* but a discount.
PolicyTables ==
    { [c \in KnownCategories |->
         CASE c = "Electronics" ->
                CategoryPolicy(3, {"refund", "return", "replacement", "discount"}, 15,
                               <<Tier(1, 15), Tier(3, 10)>>)
           [] c = "Headphones & Audio" ->
                CategoryPolicy(2, {"refund", "return", "discount"}, 10, <<Tier(2, 10)>>)
           [] c = "Phones" ->
                CategoryPolicy(2, {"replacement", "discount"}, 12, <<Tier(1, 12), Tier(3, 6)>>)
           [] OTHER ->
                CategoryPolicy(1, {"return"}, 0, << >>)],
      [c \in KnownCategories |->
         CASE c = "Electronics" ->
                CategoryPolicy(0, {"refund", "discount"}, 10, <<Tier(2, 25)>>)
           [] c = "Headphones & Audio" ->
                CategoryPolicy(4, {"replacement"}, 5, << >>)
           [] c = "Phones" ->
                CategoryPolicy(3, {"discount"}, 0, <<Tier(0, 5)>>)
           [] OTHER ->
                CategoryPolicy(2, {"refund", "return", "replacement", "discount"}, 20,
                               <<Tier(1, 5), Tier(2, 30)>>)] }

PolicyOutcome(eligible, outcome, discount_percent, reason, refused) ==
    [raised |-> FALSE, eligible |-> eligible, outcome |-> outcome,
     discount_percent |-> discount_percent, reason |-> reason,
     refused_excess_discount |-> refused]

\* evaluate left by an exception: there is no PolicyOutcome.
Raised(exc) == [raised |-> TRUE, exception |-> exc]

\* policy.py 49-53: the mandatory inputs that are missing.
missing_inputs(intent, days_since_purchase, item_opened) ==
    (IF IsNone(days_since_purchase) THEN <<"days_since_purchase">> ELSE << >>)
    \o (IF intent = "return" /\ IsNone(item_opened) THEN <<"item_opened">> ELSE << >>)

\* policy.py 60: f"Missing required info: {', '.join(missing)}."
missing_reason(missing) ==
    CASE missing = <<"days_since_purchase">> -> "Missing required info: days_since_purchase."
      [] missing = <<"item_opened">> -> "Missing required info: item_opened."
      [] OTHER -> "Missing required info: days_since_purchase, item_opened."

\* within_window off by one: a day past the window still counts as inside.
within_window_lenient(days, policy) == days <= policy.return_window_days + 1

\* policy.py 64
within_window(days, policy) == days <= policy.return_window_days

\* headphones_rule applied to refunds only.
headphones_rule_refund_only(category, intent, item_opened) ==
    /\ category = "Headphones & Audio"
    /\ intent = "refund"
    /\ item_opened = Some(TRUE)

\* policy.py 74
headphones_rule(category, intent, item_opened) ==
    /\ category = "Headphones & Audio"
    /\ intent \in {"refund", "return"}
    /\ item_opened = Some(TRUE)

\* intent_allowed without the membership test.
intent_allowed_any(intent, policy) == TRUE

\* policy.py 82
intent_allowed(intent, policy) == intent \in policy.allowed_outcomes

RECURSIVE first_tier(_, _, _)
first_tier(tiers, days, default) ==
    IF tiers = << >> THEN default
    ELSE IF days <= Head(tiers).max_days THEN Head(tiers).percent
    ELSE first_tier(Tail(tiers), days, default)

\* policy.py 113-117
_determine_discount(policy, days_since_purchase) ==
    first_tier(policy.tiered_discounts, days_since_purchase, policy.discount_cap_percent)

\* refused_excess with >= for >.
refused_excess_at_cap(requested_discount, cap) ==
    ~IsNone(requested_discount) /\ Val(requested_discount) >= cap

\* policy.py 92-94
refused_excess(requested_discount, cap) ==
    ~IsNone(requested_discount) /\ Val(requested_discount) > cap

\* clamp_discount without the final min against the cap (policy.py 97).
clamp_discount_no_cap(discount, requested_discount, cap) ==
    IF IsNone(requested_discount) THEN discount ELSE Min(discount, Val(requested_discount))

\* policy.py 95-97
clamp_discount(discount, requested_discount, cap) ==
    Min(IF IsNone(requested_discount) THEN discount
        ELSE Min(discount, Val(requested_discount)),
        cap)

\* policy.py 40-111
evaluate(table, category, intent, days_since_purchase, item_opened, requested_discount) ==
    IF category \notin DOMAIN table THEN Raised("KeyError")
    ELSE
    LET policy == table[category]
        missing == missing_inputs(intent, days_since_purchase, item_opened)
    IN  IF missing # << >>
        THEN PolicyOutcome(FALSE, "needs_info", 0, missing_reason(missing), FALSE)
        ELSE
        LET days == Val(days_since_purchase)
        IN  IF intent \in {"refund", "return", "replacement"} /\ ~within_window(days, policy)
            THEN PolicyOutcome(FALSE, "not_eligible", 0,
                               "Return window exceeded based on store policy.", FALSE)
            ELSE IF headphones_rule(category, intent, item_opened)
            THEN PolicyOutcome(FALSE, "not_eligible", 0,
                               "Opened in-ear headphones are not eligible for refund.", FALSE)
            ELSE IF ~intent_allowed(intent, policy)
            THEN PolicyOutcome(FALSE, "not_eligible", 0,
                               "Requested outcome is not allowed for this category.", FALSE)
            ELSE IF intent = "discount"
            THEN PolicyOutcome(TRUE, "discount",
                               clamp_discount(_determine_discount(policy, days),
                                              requested_discount,
                                              policy.discount_cap_percent),
                               "Discount determined by policy tiers and caps.",
                               refused_excess(requested_discount, policy.discount_cap_percent))
            ELSE PolicyOutcome(TRUE, intent, 0, "Eligible under store policy.", FALSE)

\* No evaluate call is pending or made.
NoCall == [called |-> FALSE]

\* An evaluate call about to be made: its arguments.
Call(category, intent, days_since_purchase, item_opened, requested_discount) ==
    [called |-> FALSE, category |-> category, intent |-> intent,
     days_since_purchase |-> days_since_purchase, item_opened |-> item_opened,
     requested_discount |-> requested_discount, res |-> [raised |-> FALSE]]

\* The call of PolicyEngine.evaluate with the arguments of ev; ev.res is the result.
Evaluate ==
    /\ ev # NoCall
    /\ ~ev.called
    /\ ev' = [ev EXCEPT !.called = TRUE,
                        !.res = evaluate(policies, ev.category, ev.intent,
                                         ev.days_since_purchase, ev.item_opened,
                                         ev.requested_discount)]
    /\ UNCHANGED <<policies, case, out, turns, customer, inflight, saved>>

(***************************************************************************)
(*                 orchestrator.py : text and the slot parsers             *)
(***************************************************************************)

UpperChars == <<"A", "B", "C", "D", "E", "F", "G", "H", "I", "J", "K", "L", "M",
                "N", "O", "P", "Q", "R", "S", "T", "U", "V", "W", "X", "Y", "Z">>
LowerChars == <<"a", "b", "c", "d", "e", "f", "g", "h", "i", "j", "k", "l", "m",
                "n", "o", "p", "q", "r", "s", "t", "u", "v", "w", "x", "y", "z">>
DigitChars == <<"0", "1", "2", "3", "4", "5", "6", "7", "8", "9">>

IsUpperChar(c) == \E i \in 1..26 : UpperChars[i] = c
IsLowerChar(c) == \E i \in 1..26 : LowerChars[i] = c
IsDigit(c) == \E i \in 1..10 : DigitChars[i] = c
DigitValue(c) == (CHOOSE i \in 1..10 : DigitChars[i] = c) - 1
IsSpace(c) == c = " "

\* str.lower()
LowerChar(c) == IF IsUpperChar(c) THEN LowerChars[CHOOSE i \in 1..26 : UpperChars[i] = c] ELSE c
lower(text) == [i \in 1..Len(text) |-> LowerChar(text[i])]

\* str.isupper(): at least one cased character and no lowercase one
isupper(text) ==
    /\ \E i \in 1..Len(text) : IsUpperChar(text[i])
    /\ \A i \in 1..Len(text) : ~IsLowerChar(text[i])

RECURSIVE lstrip(_)
lstrip(text) == IF text # << >> /\ IsSpace(Head(text)) THEN lstrip(Tail(text)) ELSE text
RECURSIVE rstrip(_)
rstrip(text) ==
    IF text # << >> /\ IsSpace(text[Len(text)]) THEN rstrip(SubSeq(text, 1, Len(text) - 1))
    ELSE text
\* str.strip()
strip(text) == rstrip(lstrip(text))

\* pattern in text
Contains(text, pattern) ==
    \E i \in 0..(Len(text) - Len(pattern)) : SubSeq(text, i + 1, i + Len(pattern)) = pattern

\* str.split(sep) for a one-character separator: the parts, empty ones included
RECURSIVE split_on(_, _, _)
split_on(text, sep, current) ==
    IF text = << >> THEN <<current>>
    ELSE IF Head(text) = sep THEN <<current>> \o split_on(Tail(text), sep, << >>)
    ELSE split_on(Tail(text), sep, Append(current, Head(text)))

\* str.split(): the whitespace-separated tokens
words(text) == SelectSeq(split_on(text, " ", << >>), LAMBDA w : w # << >>)

\* re.sub(r"\D", "", message)
digits_of(text) == SelectSeq(text, IsDigit)

\* int(s) for a string of decimal digits
RECURSIVE int_of(_, _)
int_of(ds, acc) == IF ds = << >> THEN acc ELSE int_of(Tail(ds), 10 * acc + DigitValue(Head(ds)))

\* re.search(r"(\d+)", message): the first maximal run of digits, or << >>
RECURSIVE digit_run(_)
digit_run(text) ==
    IF text = << >> \/ ~IsDigit(Head(text)) THEN << >>
    ELSE <<Head(text)>> \o digit_run(Tail(text))
RECURSIVE first_digits(_)
first_digits(text) ==
    IF text = << >> THEN << >>
    ELSE IF IsDigit(Head(text)) THEN digit_run(text)
    ELSE first_digits(Tail(text))

\* The keywords of the parsers (the Cyrillic ones are left out: every message
\* below is ASCII, so they match none of them).
T_lawsuit == <<"l", "a", "w", "s", "u", "i", "t">>
T_sue == <<"s", "u", "e">>
T_reviews == <<"r", "e", "v", "i", "e", "w", "s">>
T_consumer_protection == <<"c", "o", "n", "s", "u", "m", "e", "r", " ", "p", "r", "o", "t", "e", "c", "t", "i", "o", "n">>
T_yes == <<"y", "e", "s">>
T_yep == <<"y", "e", "p">>
T_no == <<"n", "o">>
T_nope == <<"n", "o", "p", "e">>
T_unassembled == <<"u", "n", "a", "s", "s", "e", "m", "b", "l", "e", "d">>
T_not_assembled == <<"n", "o", "t", " ", "a", "s", "s", "e", "m", "b", "l", "e", "d">>
T_assembled == <<"a", "s", "s", "e", "m", "b", "l", "e", "d">>
T_defective == <<"d", "e", "f", "e", "c", "t", "i", "v", "e">>
T_broken == <<"b", "r", "o", "k", "e", "n">>
T_doesnt_work == <<"d", "o", "e", "s", "n", "'", "t", " ", "w", "o", "r", "k">>
T_changed_my_mind == <<"c", "h", "a", "n", "g", "e", "d", " ", "m", "y", " ", "m", "i", "n", "d">>
T_dont_like == <<"d", "o", "n", "'", "t", " ", "l", "i", "k", "e">>
T_refund == <<"r", "e", "f", "u", "n", "d">>
T_not_like == <<"n", "o", "t", " ", "l", "i", "k", "e">>
T_food == <<"f", "o", "o", "d">>
T_furniture == <<"f", "u", "r", "n", "i", "t", "u", "r", "e">>
T_table == <<"t", "a", "b", "l", "e">>
T_chair == <<"c", "h", "a", "i", "r">>
T_electronic == <<"e", "l", "e", "c", "t", "r", "o", "n", "i", "c">>
T_laptop == <<"l", "a", "p", "t", "o", "p">>
T_phone == <<"p", "h", "o", "n", "e">>
T_art == <<"a", "r", "t">>
T_painting == <<"p", "a", "i", "n", "t", "i", "n", "g">>

\* orchestrator.py 428-435
_detect_emergency(message) ==
    LET text == strip(message)
        lowered == lower(text)
    IN  \/ isupper(text) /\ Len(text) > 8
        \/ \E trigger \in {T_lawsuit, T_sue, T_reviews, T_consumer_protection} :
               Contains(lowered, trigger)

\* orchestrator.py 351-356
_parse_days(message) ==
    LET match == first_digits(message)
    IN  IF match = << >> THEN None ELSE Some(int_of(match, 0))

\* orchestrator.py 358-369
_parse_yes_no(message) ==
    LET text == lower(message)
    IN  IF Contains(text, T_yes) \/ Contains(text, T_yep) THEN Some(TRUE)
        ELSE IF Contains(text, T_no) \/ Contains(text, T_nope) THEN Some(FALSE)
        ELSE IF Contains(text, T_unassembled) \/ Contains(text, T_not_assembled) THEN Some(FALSE)
        ELSE IF Contains(text, T_assembled) THEN Some(TRUE)
        ELSE None

\* orchestrator.py 371-378
_parse_defect_claim(message) ==
    LET text == lower(message)
    IN  IF Contains(text, T_defective) \/ Contains(text, T_broken) \/ Contains(text, T_doesnt_work)
        THEN Some(TRUE)
        ELSE IF Contains(text, T_changed_my_mind) \/ Contains(text, T_dont_like)
        THEN Some(FALSE)
        ELSE None

\* orchestrator.py 380-389
_parse_intent(message) ==
    LET text == lower(message)
    IN  IF Contains(text, T_broken) \/ Contains(text, T_defective) THEN Some("ARRIVED_BROKEN")
        ELSE IF Contains(text, T_refund) THEN Some("WANT_REFUND")
        ELSE IF Contains(text, T_not_like) \/ Contains(text, T_changed_my_mind)
        THEN Some("DID_NOT_LIKE")
        ELSE None

\* orchestrator.py 391-402
_parse_category(message) ==
    LET text == lower(message)
    IN  IF Contains(text, T_food) THEN Some("FOOD")
        ELSE IF Contains(text, T_furniture) \/ Contains(text, T_table) \/ Contains(text, T_chair)
        THEN Some("FURNITURE")
        ELSE IF Contains(text, T_electronic) \/ Contains(text, T_laptop) \/ Contains(text, T_phone)
        THEN Some("ELECTRONICS")
        ELSE IF Contains(text, T_art) \/ Contains(text, T_painting) THEN Some("ART")
        ELSE None

\* orchestrator.py 404-409
_parse_phone(message) ==
    LET digits == digits_of(message)
    IN  IF Len(digits) >= 10 THEN Some(digits) ELSE None

\* orchestrator.py 411-416
_parse_address(message) ==
    LET stripped == [i \in DOMAIN split_on(message, ",", << >>) |->
                        strip(split_on(message, ",", << >>)[i])]
        parts == SelectSeq(stripped, LAMBDA p : p # << >>)
    IN  IF Len(parts) < 3 THEN None
        ELSE Some([raw |-> strip(message), parts |-> parts])

\* orchestrator.py 298-299: the name, when the message has two tokens or more
_parse_name(message) ==
    IF Len(words(strip(message))) >= 2 THEN Some(strip(message)) ELSE None

(***************************************************************************)
(* The user messages of the model.                                         *)
(***************************************************************************)
\* "I need help"
M_help == <<"I", " ", "n", "e", "e", "d", " ", "h", "e", "l", "p">>
\* "4 days"
M_4days == <<"4", " ", "d", "a", "y", "s">>
\* "10 days"
M_10days == <<"1", "0", " ", "d", "a", "y", "s">>
\* "not assembled"
M_not_assembled == <<"n", "o", "t", " ", "a", "s", "s", "e", "m", "b", "l", "e", "d">>
\* "yes"
M_yes == <<"y", "e", "s">>
\* "it is broken"
M_broken == <<"i", "t", " ", "i", "s", " ", "b", "r", "o", "k", "e", "n">>
\* "changed my mind"
M_changed == <<"c", "h", "a", "n", "g", "e", "d", " ", "m", "y", " ", "m", "i", "n", "d">>
\* "I want a refund"
M_refund == <<"I", " ", "w", "a", "n", "t", " ", "a", " ", "r", "e", "f", "u", "n", "d">>
\* "a chair"
M_chair == <<"a", " ", "c", "h", "a", "i", "r">>
\* "I will sue you and leave bad reviews."
M_sue == <<"I", " ", "w", "i", "l", "l", " ", "s", "u", "e", " ", "y", "o", "u", " ", "a", "n", "d", " ", "l", "e", "a", "v", "e", " ", "b", "a", "d", " ", "r", "e", "v", "i", "e", "w", "s", ".">>
\* "THIS IS BAD!"
M_caps == <<"T", "H", "I", "S", " ", "I", "S", " ", "B", "A", "D", "!">>
\* "Ann Lee"
M_name == <<"A", "n", "n", " ", "L", "e", "e">>
\* "Riga, Elm st, 5"
M_address == <<"R", "i", "g", "a", ",", " ", "E", "l", "m", " ", "s", "t", ",", " ", "5">>
\* "+371 2000 0000"
M_phone == <<"+", "3", "7", "1", " ", "2", "0", "0", "0", " ", "0", "0", "0", "0">>

Messages == {M_help, M_4days, M_10days, M_not_assembled, M_yes, M_broken, M_changed,
             M_refund, M_chair, M_sue, M_caps, M_name, M_address, M_phone}

\* What the detector and each slot parser make of each message.
Parsed ==
    [m \in Messages |->
        [emergency |-> _detect_emergency(m),
         days_since_purchase |-> _parse_days(m),
         yes_no |-> _parse_yes_no(m),
         defect_claim |-> _parse_defect_claim(m),
         intent |-> _parse_intent(m),
         category |-> _parse_category(m),
         customer_phone |-> _parse_phone(m),
         pickup_address_json |-> _parse_address(m),
         customer_name |-> _parse_name(m)]]

(***************************************************************************)
(*                 orchestrator.py : the dialog manager                    *)
(***************************************************************************)

CATEGORIES == {"FOOD", "FURNITURE", "ELECTRONICS", "ART"}
INTENTS == {"WANT_REFUND", "ARRIVED_BROKEN", "DID_NOT_LIKE"}

\* orchestrator.py 46: the turn budget
TurnBudget == 8

\* db.py 26-57: a Case row as _get_case creates it (turn_count defaults to 0).
EmptyCase ==
    [category |-> None, intent |-> None, decision |-> None, status |-> None,
     discount_percent |-> None, retention_step |-> None, reason |-> None,
     days_since_purchase |-> None, purchase_date_iso |-> None,
     furniture_assembled |-> None, electronics_defect_claimed |-> None,
     defect_evidence_present |-> None, customer_name |-> None,
     customer_phone |-> None, pickup_address_json |-> None, ticket_number |-> None,
     asked_slots |-> None, last_question_slot |-> None, turn_count |-> 0,
     requested_action |-> None, user_sentiment |-> None, emergency_trigger |-> None]

InSeq(x, s) == \E i \in 1..Len(s) : s[i] = x

\* Python truthiness of an optional integer / boolean: None, 0 and False are falsy.
TruthyInt(o) == ~IsNone(o) /\ Val(o) # 0
TruthyBool(o) == o = Some(TRUE)

\* bump_turn_count that stops counting at the turn budget.
bump_turn_count_capped(c) == [c EXCEPT !.turn_count = Min(@ + 1, TurnBudget)]

\* orchestrator.py 36
bump_turn_count(c) == [c EXCEPT !.turn_count = @ + 1]

\* orchestrator.py 37-38
note_emergency(c, message) ==
    IF Parsed[message].emergency THEN [c EXCEPT !.emergency_trigger = Some(TRUE)] ELSE c

\* A branch that stores the answer and leaves the question pending.
fill_slot_keeps_question(c, slot, value) ==
    IF IsNone(value) THEN c ELSE [c EXCEPT ![slot] = value]

\* One branch of _apply_followup_parser: the slot is set and last_question_slot
\* cleared when the parser returned a value.
fill_slot(c, slot, value) ==
    IF IsNone(value) THEN c
    ELSE [c EXCEPT ![slot] = value, !.last_question_slot = None]

\* orchestrator.py 273-320
_apply_followup_parser(c, message) ==
    IF IsNone(c.last_question_slot) THEN c
    ELSE
    LET slot == Val(c.last_question_slot)
        p == Parsed[message]
    IN  CASE slot = "days_since_purchase" -> fill_slot(c, slot, p.days_since_purchase)
          [] slot = "furniture_assembled" -> fill_slot(c, slot, p.yes_no)
          [] slot = "electronics_defect_claimed" -> fill_slot(c, slot, p.defect_claim)
          [] slot = "defect_evidence_present" -> fill_slot(c, slot, p.yes_no)
          [] slot = "customer_name" -> fill_slot(c, slot, p.customer_name)
          [] slot = "customer_phone" -> fill_slot(c, slot, p.customer_phone)
          [] slot = "pickup_address_json" -> fill_slot(c, slot, p.pickup_address_json)
          [] slot = "intent" -> fill_slot(c, slot, p.intent)
          [] slot = "category" -> fill_slot(c, slot, p.category)
          [] OTHER -> c

\* _update_classification without the test of membership in CATEGORIES.
_update_classification_any(c, result) ==
    IF result.needs_clarification \/ result.confidence < 70 THEN c
    ELSE [c EXCEPT !.category = Some(result.category)]

\* _update_classification without the tests of needs_clarification and confidence.
_update_classification_unsure(c, result) ==
    IF result.category \in CATEGORIES THEN [c EXCEPT !.category = Some(result.category)]
    ELSE c

\* orchestrator.py 69-72: what the classifier returned is written to the case.
\* confidence is in hundredths.
_update_classification(c, result) ==
    IF result.needs_clarification \/ result.confidence < 70 THEN c
    ELSE IF result.category \in CATEGORIES THEN [c EXCEPT !.category = Some(result.category)]
    ELSE c

\* orchestrator.py 86-93
merge_category_intent(c, result) ==
    LET c1 == IF ~IsNone(result.category) /\ Val(result.category) \in CATEGORIES
              THEN [c EXCEPT !.category = result.category] ELSE c
    IN  IF ~IsNone(result.intent) /\ Val(result.intent) \in INTENTS
        THEN [c1 EXCEPT !.intent = result.intent,
                        !.electronics_defect_claimed =
                            IF result.intent = Some("ARRIVED_BROKEN") THEN Some(TRUE)
                            ELSE IF result.intent = Some("DID_NOT_LIKE") THEN Some(FALSE)
                            ELSE @]
        ELSE c1

\* orchestrator.py 96-97: int() of an integer is that integer
merge_days(c, result) ==
    IF ~IsNone(result.days_since_purchase)
    THEN [c EXCEPT !.days_since_purchase = result.days_since_purchase] ELSE c

\* orchestrator.py 108-109
merge_emergency(c, result) ==
    IF ~IsNone(result.emergency_trigger)
    THEN [c EXCEPT !.emergency_trigger = result.emergency_trigger] ELSE c

\* orchestrator.py 94-95, 98-107: the fields copied when set (strings when non-empty)
merge_rest(c, result) ==
    [c EXCEPT
        !.requested_action = IF ~IsNone(result.requested_action) THEN result.requested_action ELSE @,
        !.purchase_date_iso = IF ~IsNone(result.purchase_date_iso) THEN result.purchase_date_iso ELSE @,
        !.furniture_assembled =
            IF ~IsNone(result.furniture_assembled) THEN result.furniture_assembled ELSE @,
        !.electronics_defect_claimed =
            IF ~IsNone(result.electronics_defect_claimed) THEN result.electronics_defect_claimed ELSE @,
        !.defect_evidence_present =
            IF ~IsNone(result.defect_evidence_present) THEN result.defect_evidence_present ELSE @,
        !.user_sentiment = IF ~IsNone(result.user_sentiment) THEN result.user_sentiment ELSE @]

\* orchestrator.py 86-109
_update_nlu(c, result) ==
    merge_emergency(merge_rest(merge_days(merge_category_intent(c, result), result), result), result)

\* orchestrator.py 336-349
_should_run_nlu(c) ==
    \/ IsNone(c.category) \/ IsNone(c.intent) \/ IsNone(c.days_since_purchase)
    \/ IsNone(c.purchase_date_iso) \/ IsNone(c.furniture_assembled)
    \/ IsNone(c.electronics_defect_claimed) \/ IsNone(c.defect_evidence_present)
    \/ IsNone(c.emergency_trigger)

\* orchestrator.py 111-136
_missing_slots(c) ==
    (IF IsNone(c.category) THEN <<"category">> ELSE << >>)
    \o (IF IsNone(c.intent) THEN <<"intent">> ELSE << >>)
    \o (IF c.category = Some("FURNITURE")
        THEN (IF IsNone(c.days_since_purchase) /\ IsNone(c.purchase_date_iso)
              THEN <<"days_since_purchase">> ELSE << >>)
             \o (IF ~IsNone(c.days_since_purchase) /\ Val(c.days_since_purchase) <= 7
                    /\ IsNone(c.furniture_assembled)
                 THEN <<"furniture_assembled">> ELSE << >>)
        ELSE << >>)
    \o (IF c.category = Some("ELECTRONICS")
        THEN (IF IsNone(c.electronics_defect_claimed) THEN <<"electronics_defect_claimed">>
              ELSE IF TruthyBool(c.electronics_defect_claimed) /\ IsNone(c.defect_evidence_present)
              THEN <<"defect_evidence_present">>
              ELSE << >>)
        ELSE << >>)
    \o (IF c.category = Some("ART")
        THEN (IF IsNone(c.customer_name) THEN <<"customer_name">> ELSE << >>)
             \o (IF IsNone(c.pickup_address_json) THEN <<"pickup_address_json">> ELSE << >>)
             \o (IF IsNone(c.customer_phone) THEN <<"customer_phone">> ELSE << >>)
        ELSE << >>)

\* orchestrator.py 322-328: asked_slots holds json.dumps of a list of slot names;
\* json.loads gives that list back, and a missing value gives the empty list.
_asked_slots(c) == IF IsNone(c.asked_slots) THEN << >> ELSE Val(c.asked_slots)

\* _mark_asked without the membership test.
_mark_asked_again(c, slot) == [c EXCEPT !.asked_slots = Some(Append(_asked_slots(c), slot))]

\* orchestrator.py 330-334
_mark_asked(c, slot) ==
    LET asked == _asked_slots(c)
    IN  [c EXCEPT !.asked_slots = Some(IF InSeq(slot, asked) THEN asked ELSE Append(asked, slot))]

\* The purchase dates of the model and, for each, what (utcnow() - parsed).days
\* is at the time of the turn; a string fromisoformat rejects has no entry.
PurchaseDates == {"2026-10-30", "2026-09-01", "last week"}
DaysSince == [d \in {"2026-10-30", "2026-09-01"} |-> IF d = "2026-10-30" THEN 2 ELSE 61]

\* orchestrator.py 418-426
_days_from_date(date_iso) ==
    IF IsNone(date_iso) THEN None
    ELSE IF Val(date_iso) \notin DOMAIN DaysSince THEN None
    ELSE Some(DaysSince[Val(date_iso)])

\* _retention_discount with a final rung above the cap.
_retention_discount_uncapped(step) ==
    IF step = 1 THEN 0
    ELSE IF step = 2 THEN 6
    ELSE IF step = 3 THEN 11
    ELSE 25

\* orchestrator.py 184-191
_retention_discount(step) ==
    IF step = 1 THEN 0
    ELSE IF step = 2 THEN 6
    ELSE IF step = 3 THEN 11
    ELSE 20

\* next_retention_step without the cap at the last step.
next_retention_step_uncapped(c) ==
    LET step == IF TruthyInt(c.retention_step) THEN Val(c.retention_step) ELSE 0
    IN  IF TruthyBool(c.emergency_trigger) THEN 4 ELSE step + 1

\* orchestrator.py 175-179
next_retention_step(c) ==
    LET step == IF TruthyInt(c.retention_step) THEN Val(c.retention_step) ELSE 0
    IN  IF ~IsNone(c.emergency_trigger) /\ Val(c.emergency_trigger) THEN 4
        ELSE Min(step + 1, 4)

\* _retention approving a FOOD case.
_retention_food_approved(c, reason) ==
    LET step == next_retention_step(c)
    IN  IF c.category = Some("FOOD")
        THEN [case |-> [c EXCEPT !.decision = Some("approved"), !.status = Some("approved"),
                                 !.reason = Some(reason)],
              decision |-> "approved", reason |-> reason]
        ELSE [case |-> [c EXCEPT !.decision = Some("retention"), !.status = Some("retention"),
                                 !.reason = Some(reason), !.retention_step = Some(step),
                                 !.discount_percent = Some(_retention_discount(step))],
              decision |-> "retention", reason |-> reason]

\* orchestrator.py 171-182
_retention(c, reason) ==
    LET step == next_retention_step(c)
    IN  [case |-> [c EXCEPT !.decision = Some("retention"), !.status = Some("retention"),
                            !.reason = Some(reason), !.retention_step = Some(step),
                            !.discount_percent = Some(_retention_discount(step))],
         decision |-> "retention", reason |-> reason]

\* _approve that takes the case off the retention ladder.
_approve_resets(c, reason) ==
    [case |-> [c EXCEPT !.decision = Some("approved"), !.status = Some("approved"),
                        !.reason = Some(reason), !.retention_step = None,
                        !.discount_percent = None],
     decision |-> "approved", reason |-> reason]

\* orchestrator.py 165-169
_approve(c, reason) ==
    [case |-> [c EXCEPT !.decision = Some("approved"), !.status = Some("approved"),
                        !.reason = Some(reason)],
     decision |-> "approved", reason |-> reason]

\* orchestrator.py 154: days_since_purchase or _days_from_date(purchase_date_iso)
effective_days(c) ==
    IF TruthyInt(c.days_since_purchase) THEN c.days_since_purchase
    ELSE _days_from_date(c.purchase_date_iso)

\* _decision_tree that approves a claimed defect without asking for the evidence.
_decision_tree_no_evidence(c) ==
    CASE c.category = Some("FOOD") ->
            _retention(c, "Returns are not available for food items.")
      [] c.category = Some("ART") ->
            _approve(c, "Return approved for art items.")
      [] c.category = Some("ELECTRONICS") ->
            IF c.electronics_defect_claimed = Some(FALSE)
            THEN _retention(c, "Electronics returns are only for defective items.")
            ELSE _approve(c, "Defect confirmed for electronics.")
      [] c.category = Some("FURNITURE") ->
            LET days == effective_days(c)
            IN  IF IsNone(days)
                THEN [case |-> [c EXCEPT !.status = Some("needs_info")],
                      decision |-> "needs_info", reason |-> "Need purchase timing."]
                ELSE IF Val(days) > 7
                THEN _retention(c, "Furniture returns are limited to 7 days.")
                ELSE IF TruthyBool(c.furniture_assembled)
                THEN _retention(c, "Assembled furniture cannot be returned.")
                ELSE _approve(c, "Furniture return approved.")
      [] OTHER -> _retention(c, "Unable to match policy, using retention.")

\* orchestrator.py 138-163
_decision_tree(c) ==
    CASE c.category = Some("FOOD") ->
            _retention(c, "Returns are not available for food items.")
      [] c.category = Some("ART") ->
            _approve(c, "Return approved for art items.")
      [] c.category = Some("ELECTRONICS") ->
            IF c.electronics_defect_claimed = Some(FALSE)
            THEN _retention(c, "Electronics returns are only for defective items.")
            ELSE IF TruthyBool(c.electronics_defect_claimed) /\ ~TruthyBool(c.defect_evidence_present)
            THEN [case |-> [c EXCEPT !.status = Some("awaiting_evidence")],
                  decision |-> "needs_evidence",
                  reason |-> "Please provide a photo/video or clear defect symptoms."]
            ELSE _approve(c, "Defect confirmed for electronics.")
      [] c.category = Some("FURNITURE") ->
            LET days == effective_days(c)
            IN  IF IsNone(days)
                THEN [case |-> [c EXCEPT !.status = Some("needs_info")],
                      decision |-> "needs_info", reason |-> "Need purchase timing."]
                ELSE IF Val(days) > 7
                THEN _retention(c, "Furniture returns are limited to 7 days.")
                ELSE IF TruthyBool(c.furniture_assembled)
                THEN _retention(c, "Assembled furniture cannot be returned.")
                ELSE _approve(c, "Furniture return approved.")
      [] OTHER -> _retention(c, "Unable to match policy, using retention.")

\* The question of each slot (orchestrator.py 206, 210, 214, 234-252).
question(slot) ==
    CASE slot = "category" -> "What category is the product (FOOD, FURNITURE, ELECTRONICS, ART)?"
      [] slot = "intent" -> "Is the issue a refund request, arrived broken, or did not like it?"
      [] slot = "days_since_purchase" -> "How many days since purchase?"
      [] slot = "furniture_assembled" -> "Was the furniture assembled? (yes/no)"
      [] slot = "electronics_defect_claimed" -> "Is it defective/broken, or did you change your mind?"
      [] slot = "defect_evidence_present" ->
            "Do you have evidence of the defect (image/video or clear symptoms)?"
      [] slot = "customer_name" -> "Please provide your full name."
      [] slot = "pickup_address_json" ->
            "Please provide your pickup address (city, street, house, apt)."
      [] slot = "customer_phone" -> "Please provide your phone number."
      [] OTHER -> "Could you provide the missing detail?"

\* orchestrator.py 204-205, 208-209, 212-213: one question of the data collection
collect(c, slot) ==
    [case |-> [_mark_asked(c, slot) EXCEPT !.last_question_slot = Some(slot)],
     reply |-> <<question(slot)>>, question |-> Some(slot)]

\* A data collection that draws a new ticket number in every approved turn
_data_collection_reply_redraw(c, ticket) ==
    IF IsNone(c.customer_name) THEN collect(c, "customer_name")
    ELSE IF IsNone(c.pickup_address_json) THEN collect(c, "pickup_address_json")
    ELSE IF IsNone(c.customer_phone) THEN collect(c, "customer_phone")
    ELSE [case |-> [c EXCEPT !.ticket_number = Some(ticket)],
          reply |-> <<"Request #", ticket, " created. Courier will contact you.">>,
          question |-> None]

\* orchestrator.py 202-217; ticket is what random.randint gave, formatted
_data_collection_reply(c, ticket) ==
    IF IsNone(c.customer_name) THEN collect(c, "customer_name")
    ELSE IF IsNone(c.pickup_address_json) THEN collect(c, "pickup_address_json")
    ELSE IF IsNone(c.customer_phone) THEN collect(c, "customer_phone")
    ELSE LET c1 == IF IsNone(c.ticket_number) THEN [c EXCEPT !.ticket_number = Some(ticket)]
                   ELSE c
         IN  [case |-> c1,
              reply |-> <<"Request #", Val(c1.ticket_number), " created. Courier will contact you.">>,
              question |-> None]

\* orchestrator.py 219-227
_retention_reply(c) ==
    LET step == IF TruthyInt(c.retention_step) THEN Val(c.retention_step) ELSE 1
    IN  IF step = 1
        THEN "I'm sorry this didn't work out. While returns aren't available, I can assist further."
        ELSE IF step = 2 THEN "I can offer a 6% goodwill coupon to help."
        ELSE IF step = 3 THEN "I checked with my manager and can offer an 11% coupon."
        ELSE "Given the situation, I can offer a 20% coupon as a final option."

\* orchestrator.py 193-200
_build_decision_reply(c, decision, ticket) ==
    IF decision.decision = "approved" THEN _data_collection_reply(c, ticket)
    ELSE IF decision.decision = "needs_evidence"
    THEN [case |-> c, reply |-> <<decision.reason>>, question |-> None]
    ELSE IF decision.decision = "retention"
    THEN [case |-> c, reply |-> <<_retention_reply(c)>>, question |-> None]
    ELSE [case |-> c, reply |-> <<"Thanks. Let me review your case.">>, question |-> None]

\* _ask_next marking two missing slots as asked.
_ask_next_two(c, missing) ==
    LET slot == missing[1]
        marked == IF Len(missing) > 1 THEN _mark_asked(_mark_asked(c, slot), missing[2])
                  ELSE _mark_asked(c, slot)
    IN  [case |-> [marked EXCEPT !.last_question_slot = Some(slot),
                                 !.status = Some("needs_info")],
         reply |-> <<question(slot)>>]

\* _ask_next that takes the last missing slot instead of the first.
_ask_next_last(c, missing) ==
    LET slot == missing[Len(missing)]
    IN  [case |-> [_mark_asked(c, slot) EXCEPT !.last_question_slot = Some(slot),
                                               !.status = Some("needs_info")],
         reply |-> <<question(slot)>>]

\* orchestrator.py 229-252
_ask_next(c, missing) ==
    LET slot == missing[1]
    IN  [case |-> [_mark_asked(c, slot) EXCEPT !.last_question_slot = Some(slot),
                                               !.status = Some("needs_info")],
         reply |-> <<question(slot)>>]

\* orchestrator.py 259-271
_slot_label(slot) ==
    CASE slot = "category" -> "product category"
      [] slot = "intent" -> "issue type (refund, arrived broken, did not like)"
      [] slot = "days_since_purchase" -> "days since purchase"
      [] slot = "furniture_assembled" -> "whether the furniture was assembled"
      [] slot = "electronics_defect_claimed" -> "whether it is defective"
      [] slot = "defect_evidence_present" -> "defect evidence details"
      [] slot = "customer_name" -> "full name"
      [] slot = "pickup_address_json" -> "pickup address"
      [] slot = "customer_phone" -> "phone number"
      [] OTHER -> "missing detail"

\* str() of an optional string, as an f-string prints it
Str(o) == IF IsNone(o) THEN "None" ELSE Val(o)

\* _fallback_reply naming the last missing slot instead of the first.
_fallback_reply_last(c, missing) ==
    <<"Summary: category=", Str(c.category), ", intent=", Str(c.intent),
      ". I need one more detail: ", _slot_label(missing[Len(missing)]), ".">>

\* orchestrator.py 254-257
_fallback_reply(c, missing) ==
    <<"Summary: category=", Str(c.category), ", intent=", Str(c.intent),
      ". I need one more detail: ", _slot_label(missing[1]), ".">>

\* What handle_turn hands back: the case object as the call left it, and the
\* returned triple (reply, status, next question slot).  path names the return
\* statement taken, decision the decision made (if any) and question the slot whose
\* question is the reply (if any).
Return(c, reply, next_question_slot, path, decision, asked) ==
    [case |-> c,
     out |-> [raised |-> FALSE, reply |-> reply, status |-> c.status,
              next_question_slot |-> next_question_slot, path |-> path,
              decision |-> decision, question |-> asked]]

\* handle_turn left by an exception of the LLM client (gemini_client.py 34-38,
\* 54-58), which nothing in handle_turn catches: nothing is returned.
Raise(c) ==
    [case |-> c,
     out |-> [raised |-> TRUE, reply |-> << >>, status |-> None,
              next_question_slot |-> None, path |-> "raised",
              decision |-> "none", question |-> None]]

NoTurn ==
    [raised |-> FALSE, reply |-> << >>, status |-> None, next_question_slot |-> None,
     path |-> "none", decision |-> "none", question |-> None]

\* respond that asks the first missing slot again where the code stalls.
respond_asks_again(c, ticket) ==
    LET missing_slots == _missing_slots(c)
    IN  IF c.turn_count >= TurnBudget /\ missing_slots # << >>
        THEN Return(c, _fallback_reply(c, missing_slots), Some(missing_slots[1]),
                    "fallback", "none", None)
        ELSE IF missing_slots # << >>
        THEN LET a == _ask_next(c, missing_slots)
             IN  Return(a.case, a.reply, Some(missing_slots[1]), "ask", "none",
                        Some(missing_slots[1]))
        ELSE LET d == _decision_tree(c)
                 r == _build_decision_reply(d.case, d, ticket)
             IN  Return(r.case, r.reply, None, "decision", d.decision, r.question)

\* respond that runs the decision tree when the fallback is taken.
respond_fallback_decides(c, ticket) ==
    LET missing_slots == _missing_slots(c)
        asked == _asked_slots(c)
        missing_unasked == SelectSeq(missing_slots, LAMBDA s : ~InSeq(s, asked))
    IN  IF c.turn_count < TurnBudget /\ missing_unasked # << >>
        THEN LET a == _ask_next(c, missing_unasked)
             IN  Return(a.case, a.reply, Some(missing_unasked[1]), "ask", "none",
                        Some(missing_unasked[1]))
        ELSE IF c.turn_count < TurnBudget /\ missing_slots # << >>
        THEN Return(c, <<"Thanks. I can proceed once the remaining detail is provided.">>,
                    Some(missing_slots[1]), "stall", "none", None)
        ELSE LET d == _decision_tree(c)
                 r == _build_decision_reply(d.case, d, ticket)
             IN  Return(r.case, r.reply, None, "decision", d.decision, r.question)

\* orchestrator.py 44-56: the reply, once the case holds what this turn brought.
respond(c, ticket) ==
    LET missing_slots == _missing_slots(c)
        asked == _asked_slots(c)
        missing_unasked == SelectSeq(missing_slots, LAMBDA s : ~InSeq(s, asked))
    IN  IF c.turn_count >= TurnBudget /\ missing_slots # << >>
        THEN Return(c, _fallback_reply(c, missing_slots), Some(missing_slots[1]),
                    "fallback", "none", None)
        ELSE IF missing_unasked # << >>
        THEN LET a == _ask_next(c, missing_unasked)
             IN  Return(a.case, a.reply, Some(missing_unasked[1]), "ask", "none",
                        Some(missing_unasked[1]))
        ELSE IF missing_slots # << >>
        THEN Return(c, <<"Thanks. I can proceed once the remaining detail is provided.">>,
                    Some(missing_slots[1]), "stall", "none", None)
        ELSE LET d == _decision_tree(c)
                 r == _build_decision_reply(d.case, d, ticket)
             IN  Return(r.case, r.reply, None, "decision", d.decision, r.question)

\* orchestrator.py 42-43: the extractor is called when _should_run_nlu says so;
\* its call either raises or returns nlu.
understand(c, nlu, ticket) ==
    IF ~_should_run_nlu(c) THEN respond(c, ticket)
    ELSE IF nlu.failed THEN Raise(c)
    ELSE respond(_update_nlu(c, nlu), ticket)

\* orchestrator.py 40-41: the classifier is called when the request has an image;
\* its call either raises or returns image.
classify(c, image, nlu, ticket) ==
    IF ~image.present THEN understand(c, nlu, ticket)
    ELSE IF image.failed THEN Raise(c)
    ELSE understand(_update_classification(c, image), nlu, ticket)

\* orchestrator.py 33-56.  image is the classifier's answer for the uploaded
\* image (if any), nlu the extractor's answer, ticket the formatted random number.
handle_turn(c0, message, image, nlu, ticket) ==
    classify(_apply_followup_parser(note_emergency(bump_turn_count(c0), message), message),
             image, nlu, ticket)

(***************************************************************************)
(* The inputs of a turn.                                                   *)
(***************************************************************************)

\* The number of turns of a session.
MaxTurns == 9

\* models.py 17-22: what the image classifier answered (failed: the call raised).
Image(category, confidence, needs_clarification) ==
    [present |-> TRUE, failed |-> FALSE, category |-> category,
     confidence |-> confidence, needs_clarification |-> needs_clarification]
NoImage ==
    [present |-> FALSE, failed |-> FALSE, category |-> "", confidence |-> 0,
     needs_clarification |-> FALSE]
ImageFailure == [Image("", 0, TRUE) EXCEPT !.failed = TRUE]

\* The extractor's answer: the fields _update_nlu reads, none of them mentioned.
NoFacts ==
    [failed |-> FALSE, category |-> None, intent |-> None, requested_action |-> None,
     days_since_purchase |-> None, purchase_date_iso |-> None,
     furniture_assembled |-> None, electronics_defect_claimed |-> None,
     defect_evidence_present |-> None, user_sentiment |-> None,
     emergency_trigger |-> None]
NLUFailure == [NoFacts EXCEPT !.failed = TRUE]

Facts(category, intent) == [NoFacts EXCEPT !.category = Some(category), !.intent = Some(intent)]
Days(d) == [NoFacts EXCEPT !.days_since_purchase = Some(d)]
PurchaseDate(d) == [NoFacts EXCEPT !.purchase_date_iso = Some(d)]
Assembled(b) == [NoFacts EXCEPT !.furniture_assembled = Some(b)]
DefectClaimed(b) == [NoFacts EXCEPT !.electronics_defect_claimed = Some(b)]
Evidence(b) == [NoFacts EXCEPT !.defect_evidence_present = Some(b)]
Emergency(b) == [NoFacts EXCEPT !.emergency_trigger = Some(b)]
Mood == [NoFacts EXCEPT !.requested_action = Some("refund"), !.user_sentiment = Some("angry")]

\* f"{random.randint(0, 99999999):08d}"
Tickets == {"00000042", "31415926"}

\* One request: the message, the classifier's answer for its image (NoImage for
\* /api/chat), the extractor's answer and the random ticket number.
Turn(message, image, nlu, ticket) ==
    [message |-> message, image |-> image, nlu |-> nlu, ticket |-> ticket]

Product(messages, images, nlus) ==
    {Turn(m, i, n, "00000042") : m \in messages, i \in images, n \in nlus}

Customers == {"food", "furniture", "dated", "electronics", "art", "hostile"}

\* The requests each kind of conversation is made of.
TurnsOf(who) ==
    CASE who = "food" ->
            Product({M_help, M_refund, M_sue, M_caps}, {NoImage},
                    {NoFacts, Facts("FOOD", "WANT_REFUND"), Emergency(FALSE), Emergency(TRUE)})
      [] who = "furniture" ->
            Product({M_help, M_chair, M_refund, M_4days, M_10days, M_not_assembled, M_yes},
                    {NoImage}, {NoFacts})
            \cup Product({M_help}, {NoImage},
                         {Facts("FURNITURE", "DID_NOT_LIKE"), Days(0), Days(-1), Assembled(TRUE)})
            \cup Product({M_help}, {Image("FURNITURE", 90, FALSE), Image("ART", 69, FALSE)},
                         {NoFacts})
      [] who = "dated" ->
            Product({M_help, M_not_assembled}, {NoImage},
                    {NoFacts, Facts("FURNITURE", "WANT_REFUND"), Days(0), Days(3)}
                    \cup {PurchaseDate(d) : d \in PurchaseDates})
      [] who = "electronics" ->
            Product({M_help, M_broken, M_changed, M_yes}, {NoImage}, {NoFacts})
            \cup Product({M_help}, {NoImage},
                         {Facts("ELECTRONICS", "WANT_REFUND"), Facts("ELECTRONICS", "ARRIVED_BROKEN"),
                          DefectClaimed(TRUE), DefectClaimed(FALSE), Evidence(TRUE),
                          Evidence(FALSE), Mood})
            \cup Product({M_help}, {Image("ELECTRONICS", 70, FALSE)}, {NoFacts})
      [] who = "art" ->
            Product({M_help, M_name, M_address, M_phone}, {NoImage},
                    {NoFacts, Facts("ART", "DID_NOT_LIKE")})
            \cup {Turn(M_phone, NoImage, NoFacts, "31415926")}
      [] OTHER ->
            Product({M_help, M_sue}, {NoImage},
                    {NoFacts, NLUFailure, Facts("Phones", "refund"), Facts("FOOD", "refund"),
                     Facts("Phones", "DID_NOT_LIKE"), Facts("ELECTRONICS", "ARRIVED_BROKEN"),
                     Facts("ART", "WANT_REFUND")})
            \cup Product({M_help}, {Image("Phones", 99, FALSE), Image("FOOD", 95, TRUE), ImageFailure},
                         {NoFacts, NLUFailure})

\* server.py 76-79 (cli.py 32-34): the case is committed when handle_turn returned;
\* when it raised, the request ends there and the row keeps what it held.
Commit(r) ==
    /\ case' = IF r.out.raised THEN case ELSE r.case
    /\ out' = r.out
    /\ turns' = IF r.out.raised THEN turns ELSE turns + 1
    /\ UNCHANGED <<policies, ev, customer, inflight, saved>>

\* server.py 69-89: POST /api/chat
chat(message, nlu, ticket) ==
    /\ turns < MaxTurns
    /\ Commit(handle_turn(case, message, NoImage, nlu, ticket))

\* server.py 92-130: POST /api/chat-with-image
chat_with_image(message, image, nlu, ticket) ==
    /\ turns < MaxTurns
    /\ Commit(handle_turn(case, message, image, nlu, ticket))

(***************************************************************************)
(* The specifications.                                                     *)
(***************************************************************************)

\* The dialog service: no policy engine is constructed (server.py 32-34).
Init ==
    /\ policies = << >>
    /\ ev = NoCall
    /\ case = EmptyCase
    /\ out = NoTurn
    /\ turns = 0
    /\ customer \in Customers
    /\ inflight = << >>
    /\ saved = None

Next ==
    \/ \E t \in {x \in TurnsOf(customer) : ~x.image.present} :
           chat(t.message, t.nlu, t.ticket)
    \/ \E t \in {x \in TurnsOf(customer) : x.image.present} :
           chat_with_image(t.message, t.image, t.nlu, t.ticket)

Spec == Init /\ [][Next]_vars

\* The policy engine alone: a table, the arguments of one call, and the call.
InitPolicy ==
    /\ policies \in PolicyTables
    /\ ev \in {Call(category, intent, days, opened, requested) :
                 category \in PolicyCategories, intent \in PolicyIntents,
                 days \in DaysArgs, opened \in OpenedArgs, requested \in RequestedArgs}
    /\ case = EmptyCase
    /\ out = NoTurn
    /\ turns = 0
    /\ customer = "none"
    /\ inflight = << >>
    /\ saved = None

NextPolicy == Evaluate

SpecPolicy == InitPolicy /\ [][NextPolicy]_vars

(***************************************************************************)
(* Two requests for one session_id handled at the same time: two processes *)
(* (CLI invocations, or server workers) on the same database.  Inside one  *)
(* server process the handlers do not interleave: they are coroutines with *)
(* no await between the load of the case and its commit.                   *)
(***************************************************************************)

Handlers == {1, 2}

Idle == [pc |-> "idle"]

\* server.py 72-76 (cli.py 20-32): the commit of the user's message has expired
\* the Case object, so its first attribute read in handle_turn (orchestrator.py
\* 36) loads the row as it is committed at that moment.
load(h, t) ==
    /\ inflight[h].pc = "idle"
    /\ inflight' = [inflight EXCEPT ![h] = [pc |-> "loaded", loaded |-> case, request |-> t]]
    /\ UNCHANGED <<policies, ev, case, out, turns, customer, saved>>

\* session.commit() of a changed Case: the UPDATE sets the columns whose value
\* differs from the value loaded, and no other column.
flush(row, loaded, changed) ==
    [f \in DOMAIN row |-> IF changed[f] # loaded[f] THEN changed[f] ELSE row[f]]

\* server.py 76-79 (cli.py 32-34): handle_turn on the loaded object, then commit;
\* no commit when handle_turn raised.
commit(h) ==
    /\ inflight[h].pc = "loaded"
    /\ LET t == inflight[h].request
           r == handle_turn(inflight[h].loaded, t.message, t.image, t.nlu, t.ticket)
       IN  /\ case' = IF r.out.raised THEN case ELSE flush(case, inflight[h].loaded, r.case)
           /\ out' = r.out
           /\ turns' = IF r.out.raised THEN turns ELSE turns + 1
           /\ inflight' = [inflight EXCEPT ![h].pc = IF r.out.raised THEN "failed" ELSE "done"]
    /\ UNCHANGED <<policies, ev, customer, saved>>

InitRace ==
    /\ policies = << >>
    /\ ev = NoCall
    /\ case = EmptyCase
    /\ out = NoTurn
    /\ turns = 0
    /\ customer \in {"food", "furniture"}
    /\ inflight = [h \in Handlers |-> Idle]
    /\ saved = None

NextRace ==
    \/ \E h \in Handlers : \E t \in TurnsOf(customer) : load(h, t)
    \/ \E h \in Handlers : commit(h)

SpecRace == InitRace /\ [][NextRace]_vars

(***************************************************************************)
(*             state.py : SessionState and its JSON round trip             *)
(* A Python float is the record [float |-> v]; a JSON value is a record    *)
(* tagged by its kind, as json.dumps writes it and json.loads reads it.    *)
(***************************************************************************)

Float(v) == [float |-> v]

JNull == [json |-> "null"]
JBool(b) == [json |-> "bool", value |-> b]
JInt(n) == [json |-> "number", fraction |-> FALSE, value |-> n]
JFloat(x) == [json |-> "number", fraction |-> TRUE, value |-> x.float]
JString(s) == [json |-> "string", value |-> s]
JArray(items) == [json |-> "array", items |-> items]
JObject(members) == [json |-> "object", members |-> members]

\* json.dumps of an Optional value: null for None, else the value as its type writes it
dumps_optional(o, type) ==
    IF IsNone(o) THEN JNull
    ELSE CASE type = "str" -> JString(Val(o))
           [] type = "int" -> JInt(Val(o))
           [] type = "float" -> JFloat(Val(o))
           [] type = "bool" -> JBool(Val(o))
dumps_list(l) == JArray([i \in 1..Len(l) |-> JString(l[i])])

\* The Python value json.loads builds for a JSON scalar or an array of strings.
python_value(j) ==
    CASE j.json = "bool" -> j.value
      [] j.json = "number" -> IF j.fraction THEN Float(j.value) ELSE j.value
      [] j.json = "string" -> j.value
      [] j.json = "array" -> [i \in 1..Len(j.items) |-> j.items[i].value]

\* What setattr stores for a parsed value: None for null; a value of an Optional
\* field is Some(v) in this model.
attribute_value(j, optional) ==
    IF j.json = "null" THEN None
    ELSE IF optional THEN Some(python_value(j))
    ELSE python_value(j)

\* state.py 18-38: the fields that are Optional, and the state the constructor builds
OptionalFields ==
    {"user_goal", "category", "item_guess", "last_policy_outcome", "days_since_purchase",
     "item_opened", "condition", "purchase_price", "amazon_asin", "amazon_url",
     "requested_discount", "last_question_slot"}

SessionState(session_id) ==
    [session_id |-> session_id, inferred_intent |-> "unknown", user_goal |-> None,
     user_goal_summary |-> "", category |-> None, item_guess |-> None,
     confidence |-> Float(0), missing_info |-> << >>, last_policy_outcome |-> None,
     days_since_purchase |-> None, item_opened |-> None, condition |-> None,
     purchase_price |-> None, amazon_asin |-> None, amazon_url |-> None,
     requested_discount |-> None, asked_slots |-> << >>, last_question_slot |-> None,
     turn_count |-> 0]

\* dataclasses.asdict of a PolicyOutcome, as json.dumps writes it
outcome_asdict(o) ==
    JObject([eligible |-> JBool(o.eligible), outcome |-> JString(o.outcome),
             discount_percent |-> JFloat(Float(o.discount_percent)),
             reason |-> JString(o.reason),
             refused_excess_discount |-> JBool(o.refused_excess_discount)])

\* state.py 40-44
to_json(s) ==
    JObject(
      [session_id |-> JString(s.session_id),
       inferred_intent |-> JString(s.inferred_intent),
       user_goal |-> dumps_optional(s.user_goal, "str"),
       user_goal_summary |-> JString(s.user_goal_summary),
       category |-> dumps_optional(s.category, "str"),
       item_guess |-> dumps_optional(s.item_guess, "str"),
       confidence |-> JFloat(s.confidence),
       missing_info |-> dumps_list(s.missing_info),
       last_policy_outcome |-> IF IsNone(s.last_policy_outcome) THEN JNull
                              ELSE outcome_asdict(Val(s.last_policy_outcome)),
       days_since_purchase |-> dumps_optional(s.days_since_purchase, "int"),
       item_opened |-> dumps_optional(s.item_opened, "bool"),
       condition |-> dumps_optional(s.condition, "str"),
       purchase_price |-> dumps_optional(s.purchase_price, "float"),
       amazon_asin |-> dumps_optional(s.amazon_asin, "str"),
       amazon_url |-> dumps_optional(s.amazon_url, "str"),
       requested_discount |-> dumps_optional(s.requested_discount, "float"),
       asked_slots |-> dumps_list(s.asked_slots),
       last_question_slot |-> dumps_optional(s.last_question_slot, "str"),
       turn_count |-> JInt(s.turn_count)])

\* dict.get(key, default) on a parsed JSON object
get(data, key, default) ==
    IF key \in DOMAIN data.members THEN data.members[key] ELSE default

\* state.py 51: PolicyOutcome(**outcome)
outcome_from_dict(j) ==
    PolicyOutcome(python_value(j.members.eligible), python_value(j.members.outcome),
                  python_value(j.members.discount_percent).float,
                  python_value(j.members.reason),
                  python_value(j.members.refused_excess_discount))

\* from_dict that never rebuilds the policy outcome: the field keeps its default
from_dict_without_outcome(data) ==
    LET state == SessionState(python_value(get(data, "session_id", JString("unknown"))))
    IN  [key \in DOMAIN state |->
            IF key # "last_policy_outcome" /\ key \in DOMAIN data.members
            THEN attribute_value(data.members[key], key \in OptionalFields)
            ELSE state[key]]

\* state.py 46-57
from_dict(data) ==
    LET outcome == get(data, "last_policy_outcome", JNull)
        state == SessionState(python_value(get(data, "session_id", JString("unknown"))))
        \* state.py 50: an object with members is truthy, null is not
        rebuilt == IF outcome.json = "object" /\ DOMAIN outcome.members # {}
                   THEN [state EXCEPT !.last_policy_outcome = Some(outcome_from_dict(outcome))]
                   ELSE state
    IN  [key \in DOMAIN rebuilt |->
            IF key # "last_policy_outcome" /\ key \in DOMAIN data.members
            THEN attribute_value(data.members[key], key \in OptionalFields)
            ELSE rebuilt[key]]

\* The session states the round trip is exercised on.
SessionStates ==
    {[SessionState("s1") EXCEPT
        !.inferred_intent = inferred_intent, !.user_goal = user_goal,
        !.category = category, !.confidence = confidence,
        !.missing_info = missing_info, !.last_policy_outcome = last_policy_outcome,
        !.days_since_purchase = days_since_purchase, !.item_opened = item_opened,
        !.purchase_price = purchase_price, !.asked_slots = asked_slots,
        !.last_question_slot = last_question_slot, !.turn_count = turn_count] :
     inferred_intent \in {"unknown", "refund"},
     user_goal \in {None, Some("")},
     category \in {None, Some("headphones")},
     confidence \in {Float(0), Float(85)},
     missing_info \in {<< >>, <<"category">>, <<"category", "days_since_purchase">>},
     last_policy_outcome \in
        {None,
         Some(PolicyOutcome(TRUE, "discount", 10, "Open-box discount.", FALSE)),
         Some(PolicyOutcome(FALSE, "needs_info", 0, "Missing days since purchase.", TRUE))},
     days_since_purchase \in {None, Some(0), Some(12)},
     item_opened \in {None, Some(FALSE), Some(TRUE)},
     purchase_price \in {None, Some(Float(1999))},
     asked_slots \in {<< >>, <<"category">>, <<"category", "days_since_purchase">>},
     last_question_slot \in {None, Some("category")},
     turn_count \in {0, 3}}

\* The variable saved holds the state in memory, the session file of state.py
\* 60-64 (None until the first save), the file content the last load read, and
\* the state that load returned.

\* state.py 75-77
save_session ==
    /\ saved' = [saved EXCEPT !.file = Some(to_json(saved.state))]
    /\ UNCHANGED <<policies, ev, case, out, turns, customer, inflight>>

\* state.py 67-72
load_session ==
    /\ saved' = [saved EXCEPT
                    !.read = saved.file,
                    !.loaded =
                        IF IsNone(saved.file) THEN Some(SessionState(saved.state.session_id))
                        ELSE Some(from_dict(Val(saved.file)))]
    /\ UNCHANGED <<policies, ev, case, out, turns, customer, inflight>>

InitState ==
    /\ policies = << >>
    /\ ev = NoCall
    /\ case = EmptyCase
    /\ out = NoTurn
    /\ turns = 0
    /\ customer = "none"
    /\ inflight = << >>
    /\ saved \in {[state |-> s, file |-> None, read |-> None, loaded |-> None] : s \in SessionStates}

NextState ==
    \/ save_session
    \/ load_session

SpecState == InitState /\ [][NextState]_vars

(***************************************************************************)
(*        server.py 43-50, cli.py 20-25 : the row of a session             *)
(* The table cases is the sequence saved of rows in insertion order; each  *)
(* handler is a process (a CLI invocation or a server worker) between its  *)
(* query and its insert.                                                   *)
(***************************************************************************)

MaxRows == 3

\* db.py 26-32: a new row; id is the autoincrement primary key, session_id is
\* indexed and carries no unique constraint
Row(id, session_id) == [id |-> id, session_id |-> session_id]

\* query(Case).filter(Case.session_id == session_id).first()
first(rows, session_id) ==
    LET found == SelectSeq(rows, LAMBDA r : r.session_id = session_id)
    IN  IF found = << >> THEN None ELSE Some(found[1])

\* server.py 44 (cli.py 20): the handler looks the session up
query(h, session_id) ==
    /\ inflight[h].pc = "idle"
    /\ inflight' = [inflight EXCEPT ![h] =
                       [pc |-> "queried", session_id |-> session_id,
                        case |-> first(saved, session_id)]]
    /\ UNCHANGED <<policies, ev, case, out, turns, customer, saved>>

\* server.py 45-50 (cli.py 21-25): a handler that found no row adds one and
\* commits; one that found a row returns it
add(h) ==
    /\ inflight[h].pc = "queried"
    /\ IsNone(inflight[h].case) => Len(saved) < MaxRows
    /\ saved' = IF IsNone(inflight[h].case)
                THEN Append(saved, Row(Len(saved) + 1, inflight[h].session_id))
                ELSE saved
    /\ inflight' = [inflight EXCEPT ![h] = Idle]
    /\ UNCHANGED <<policies, ev, case, out, turns, customer>>

InitRows ==
    /\ policies = << >>
    /\ ev = NoCall
    /\ case = EmptyCase
    /\ out = NoTurn
    /\ turns = 0
    /\ customer = "none"
    /\ inflight = [h \in Handlers |-> Idle]
    /\ saved = << >>

NextRows ==
    \/ \E h \in Handlers : \E s \in {"s1", "s2"} : query(h, s)
    \/ \E h \in Handlers : add(h)

SpecRows == InitRows /\ [][NextRows]_vars

(***************************************************************************)
(*                              The claims                                 *)
(***************************************************************************)

\* The evaluate call of ev has been made on a category of the table.
Evaluated == ev.called /\ ev.category \in DOMAIN policies
Policy == policies[ev.category]
WindowExceeded == "Return window exceeded based on store policy."

\* The mandatory inputs as the specification states them: days_since_purchase
\* always, item_opened when the intent is refund or return.
MandatoryPresent ==
    /\ ~IsNone(ev.days_since_purchase)
    /\ ev.intent \in {"refund", "return"} => ~IsNone(ev.item_opened)

InWindow ==
    ~IsNone(ev.days_since_purchase) /\ Val(ev.days_since_purchase) <= Policy.return_window_days

\* C1: over every sequence of turns on a case that starts empty, discount_percent
\* is unset or one of 0, 6, 11, 20, so it is never above 20.
C1_DiscountAtMost20 ==
    IsNone(case.discount_percent) \/ Val(case.discount_percent) \in {0, 6, 11, 20}

\* A retention turn under the emergency flag has set the discount to 20.
C1_Witness ==
    /\ out.decision = "retention"
    /\ case.emergency_trigger = Some(TRUE)
    /\ case.discount_percent = Some(20)

\* C2: on a known category the returned discount_percent is at most the category's
\* discount_cap_percent, whatever the request, the days and the tiers are.
C2_DiscountAtMostCap ==
    Evaluated => ev.res.discount_percent <= Policy.discount_cap_percent

\* A discount whose tier is above the cap was clamped to the cap.
C2_Witness ==
    /\ Evaluated
    /\ ev.res.outcome = "discount"
    /\ _determine_discount(Policy, Val(ev.days_since_purchase)) > Policy.discount_cap_percent
    /\ ev.res.discount_percent = Policy.discount_cap_percent

RequestedAboveCap ==
    ~IsNone(ev.requested_discount) /\ Val(ev.requested_discount) > Policy.discount_cap_percent

C4_NeedsInfoIffMandatoryMissing ==
    Evaluated => (ev.res.outcome = "needs_info" <=> ~MandatoryPresent)

\* C5: evaluate never raises, and for a category that is not in the table it
\* returns eligible = false with outcome needs_info.
C5_NeverRaises ==
    ev.called =>
        /\ ~ev.res.raised
        /\ ev.category \notin DOMAIN policies =>
               ev.res.eligible = FALSE /\ ev.res.outcome = "needs_info"

\* C6: with the mandatory inputs present, a refund, return or replacement past the
\* return window is not_eligible with the window-exceeded reason (also when the
\* Headphones rule applies or the intent is not allowed), and a discount is never
\* refused for the window.
C6_WindowCheckFirst ==
    (Evaluated /\ MandatoryPresent) =>
        /\ (ev.intent \in {"refund", "return", "replacement"} /\ ~InWindow) =>
               /\ ev.res.outcome = "not_eligible"
               /\ ev.res.eligible = FALSE
               /\ ev.res.reason = WindowExceeded
        /\ ev.intent = "discount" => ev.res.reason # WindowExceeded

\* An opened-headphones refund past the window was refused for the window.
C6_Witness ==
    /\ Evaluated
    /\ ev.category = "Headphones & Audio"
    /\ ev.intent = "refund"
    /\ ev.item_opened = Some(TRUE)
    /\ ~InWindow
    /\ ev.res.reason = WindowExceeded

\* C7: for Headphones & Audio, a refund or return of an opened item within the
\* window is not_eligible, whatever allowed_outcomes and requested_discount are.
C7_OpenedHeadphonesNotEligible ==
    (/\ ev.called
     /\ ev.category = "Headphones & Audio"
     /\ ev.intent \in {"refund", "return"}
     /\ ev.item_opened = Some(TRUE)
     /\ InWindow) =>
        ev.res.eligible = FALSE /\ ev.res.outcome = "not_eligible"

\* An allowed return of opened headphones within the window was refused.
C7_Witness ==
    /\ Evaluated
    /\ ev.category = "Headphones & Audio"
    /\ ev.intent = "return"
    /\ ev.intent \in Policy.allowed_outcomes
    /\ ev.item_opened = Some(TRUE)
    /\ ~IsNone(ev.requested_discount)
    /\ InWindow
    /\ ev.res.reason = "Opened in-ear headphones are not eligible for refund."

\* The checks that come before the allowed-outcomes check let the call through.
PassesEarlierChecks ==
    /\ MandatoryPresent
    /\ ev.intent \in {"refund", "return", "replacement"} => InWindow
    /\ ~headphones_rule(ev.category, ev.intent, ev.item_opened)

EligibleImpliesAllowed ==
    ev.res.eligible = TRUE =>
        ev.intent \in Policy.allowed_outcomes /\ ev.res.outcome = ev.intent

NotAllowedIsNotEligible ==
    (PassesEarlierChecks /\ ev.intent \notin Policy.allowed_outcomes) =>
        ev.res.outcome = "not_eligible"

\* C8 as stated: eligible implies an allowed intent and outcome = intent; an intent
\* that is not allowed and passes the earlier checks is not_eligible; every
\* in-window, allowed, non-discount intent is eligible with outcome = intent.
C8_EligibleIffAllowed_Original ==
    Evaluated =>
        /\ EligibleImpliesAllowed
        /\ NotAllowedIsNotEligible
        /\ (InWindow /\ ev.intent \in Policy.allowed_outcomes /\ ev.intent # "discount") =>
               ev.res.eligible = TRUE /\ ev.res.outcome = ev.intent

\* C8 as amended: the last part holds for the calls that pass the earlier checks
\* (no mandatory input missing, the Headphones rule not applying).
C8_EligibleIffAllowed ==
    Evaluated =>
        /\ EligibleImpliesAllowed
        /\ NotAllowedIsNotEligible
        /\ (/\ PassesEarlierChecks
            /\ InWindow
            /\ ev.intent \in Policy.allowed_outcomes
            /\ ev.intent # "discount") =>
               ev.res.eligible = TRUE /\ ev.res.outcome = ev.intent

\* An allowed refund within the window was granted.
C8_Witness ==
    /\ Evaluated
    /\ PassesEarlierChecks
    /\ InWindow
    /\ ev.intent = "refund"
    /\ ev.res.eligible = TRUE
    /\ ev.res.outcome = "refund"

\* C9: discount_percent is never negative, and it is 0 whenever the outcome is
\* not discount.
C9_DiscountNonNegative ==
    Evaluated =>
        /\ ev.res.discount_percent >= 0
        /\ ev.res.outcome # "discount" => ev.res.discount_percent = 0

\* C10: after N handle_turn calls that returned, turn_count is N.
C10_TurnCountIsTurns == case.turn_count = turns

\* A session past the turn budget: the ninth turn has returned.
C10_Witness ==
    /\ turns = TurnBudget + 1
    /\ case.turn_count = TurnBudget + 1
    /\ out.path = "fallback"


\* The question of the turn that has just returned, if it asked one.
Asked(o) == ~o.raised /\ ~IsNone(o.question)

\* C11: over any sequence of turns no slot is asked a second time, whether the
\* question comes from the ask-next rule or from the data-collection sub-flow:
\* a turn that asks a slot finds it absent from asked_slots.
C11_NoSlotAskedTwice ==
    [][Asked(out') => ~InSeq(Val(out'.question), _asked_slots(case))]_vars

\* No element of s occurs twice.
NoDuplicates(s) == \A i, j \in 1..Len(s) : s[i] = s[j] => i = j

\* s is an initial part of t.
IsPrefix(s, t) == Len(s) <= Len(t) /\ SubSeq(t, 1, Len(s)) = s

\* C12: asked_slots only grows (what it held stays, in place) and no slot name
\* appears in it twice.
C12_AskedSlotsOnlyGrows ==
    /\ [](NoDuplicates(_asked_slots(case)))
    /\ [][IsPrefix(_asked_slots(case), _asked_slots(case'))]_vars

\* Four slots have been asked, the last of them by the data-collection sub-flow
\* after an approval.
C12_Witness ==
    /\ Len(_asked_slots(case)) >= 4
    /\ out.path = "decision"
    /\ out.question = Some("customer_name")

\* C13: a turn adds at most one slot to asked_slots, and the slot it leaves in
\* last_question_slot, when that changed, is the one question of the turn.
C13_AtMostOneQuestionPerTurn ==
    [][/\ Len(_asked_slots(case')) <= Len(_asked_slots(case)) + 1
       /\ \A s \in {_asked_slots(case')[i] : i \in 1..Len(_asked_slots(case'))} :
              InSeq(s, _asked_slots(case)) \/ out'.question = Some(s)
       /\ (case'.last_question_slot # case.last_question_slot
           /\ ~IsNone(case'.last_question_slot))
          => out'.question = case'.last_question_slot]_vars

\* A turn of the ask-next rule with two slots missing has asked the first only.
C13_Witness ==
    /\ out.path = "ask"
    /\ Len(_missing_slots(case)) >= 2
    /\ Len(_asked_slots(case)) = 1


\* C14: a turn whose turn_count, after the increment, is 8 or more asks no new
\* question: it adds no slot to asked_slots and sets last_question_slot to no
\* slot, on the fallback, the stall and the decision path alike.
C14_NoQuestionPastBudget ==
    [][(~out'.raised /\ case'.turn_count >= TurnBudget)
       => /\ _asked_slots(case') = _asked_slots(case)
          /\ IsNone(out'.question)
          /\ (case'.last_question_slot = case.last_question_slot
              \/ IsNone(case'.last_question_slot))]_vars

\* The expected fallback summary for a case and its missing slots.
FallbackSummary(c, missing) ==
    <<"Summary: category=", Str(c.category), ", intent=", Str(c.intent),
      ". I need one more detail: ", _slot_label(missing[1]), ".">>

\* C15: a turn with turn_count >= 8 and a required slot still missing replies
\* with the fallback summary (category and intent, then the first missing slot),
\* leaves asked_slots unchanged and enters neither the ask-next rule, nor the
\* stall reply, nor the decision tree.
C15_FallbackPastBudget ==
    [][(~out'.raised /\ case'.turn_count >= TurnBudget /\ _missing_slots(case') # << >>)
       => /\ out'.path = "fallback"
          /\ out'.reply = FallbackSummary(case', _missing_slots(case'))
          /\ out'.decision = "none"
          /\ IsNone(out'.question)
          /\ _asked_slots(case') = _asked_slots(case)
          /\ case'.decision = case.decision
          /\ case'.last_question_slot \in {case.last_question_slot, None}]_vars

\* The eighth turn of a furniture case that knows category and intent and still
\* misses two slots, one of them never asked.
C15_Witness ==
    /\ out.path = "fallback"
    /\ case.turn_count = TurnBudget
    /\ ~IsNone(case.category)
    /\ Len(_missing_slots(case)) >= 1
    /\ \E i \in 1..Len(_missing_slots(case)) :
           ~InSeq(_missing_slots(case)[i], _asked_slots(case))


\* C16: the third element of the returned triple is non-null exactly when the
\* turn asked a question: null on fallback and stall turns, the slot on every
\* turn that asks one, the data-collection sub-flow included.
C16_NextQuestionIffAsked ==
    (turns > 0 /\ ~out.raised) => (~IsNone(out.next_question_slot) <=> ~IsNone(out.question))

\* C17: category is null or one of CATEGORIES and intent is null or one of
\* INTENTS, whatever the extractor and the classifier returned.
C17_CategoryAndIntentInDomain ==
    /\ IsNone(case.category) \/ Val(case.category) \in CATEGORIES
    /\ IsNone(case.intent) \/ Val(case.intent) \in INTENTS

\* The extractor answered category FOOD with the intent "refund", which is not
\* one of INTENTS: the category was taken, the intent was not, and it is asked.
C17_Witness ==
    /\ customer = "hostile"
    /\ case.category = Some("FOOD")
    /\ IsNone(case.intent)
    /\ out.question = Some("intent")

\* The requests of a conversation whose message fires the emergency detector.
Firing(who) == {t \in TurnsOf(who) : Parsed[t.message].emergency}

\* C18: a turn whose message fires the emergency detector and that enters the
\* retention path leaves emergency_trigger true, retention_step 4 and
\* discount_percent 20, and replies with the 20% final-option line, whatever the
\* extractor returned in that turn.
C18_EmergencySnapsRetention ==
    [][\A t \in Firing(customer) :
          LET r == handle_turn(case, t.message, t.image, t.nlu, t.ticket)
          IN  (case' = r.case /\ out' = r.out /\ ~r.out.raised /\ r.out.decision = "retention")
              => /\ case'.emergency_trigger = Some(TRUE)
                 /\ case'.retention_step = Some(4)
                 /\ case'.discount_percent = Some(20)
                 /\ out'.reply
                      = <<"Given the situation, I can offer a 20% coupon as a final option.">>]_vars

\* C19: a turn whose decision tree runs on a FOOD case ends in retention, with
\* the reason that returns are not available for food items; the case is not
\* approved and its ticket_number is what it was before the turn.
C19_FoodAlwaysRetention ==
    [][(~out'.raised /\ out'.path = "decision" /\ case'.category = Some("FOOD"))
       => /\ out'.decision = "retention"
          /\ case'.decision = Some("retention")
          /\ case'.status = Some("retention")
          /\ case'.reason = Some("Returns are not available for food items.")
          /\ case'.ticket_number = case.ticket_number]_vars

\* The decision tree has run twice on a FOOD case: the second retention turn.
C19_Witness ==
    /\ out.path = "decision"
    /\ case.category = Some("FOOD")
    /\ case.decision = Some("retention")
    /\ case.retention_step = Some(2)
    /\ case.reason = Some("Returns are not available for food items.")

\* C20: a failing LLM call (extraction or classification) does not make
\* handle_turn raise: every turn returns a reply.
C20_LLMFailureIsAbsorbed == ~out.raised


\* The case after the turn of request t on case c, run alone.
After(c, t) ==
    LET r == handle_turn(c, t.message, t.image, t.nlu, t.ticket)
    IN  IF r.out.raised THEN c ELSE r.case

\* Both handlers have finished their request.
BothFinished == \A h \in Handlers : inflight[h].pc \in {"done", "failed"}

\* C21: two requests of one session in flight at the same time leave the case
\* as one of the two serial orders would: the second turn works on what the
\* first committed, and nothing written by one turn is lost to the other.
C21_ConcurrentTurnsAreSerial ==
    BothFinished
    => \/ case = After(After(EmptyCase, inflight[1].request), inflight[2].request)
       \/ case = After(After(EmptyCase, inflight[2].request), inflight[1].request)

\* C22: a session state that was saved and read back equals the state that was
\* saved, field by field, whatever its policy outcome, asked slots and missing info.
C22_RoundTrip ==
    (~IsNone(saved) /\ ~IsNone(saved.read) /\ ~IsNone(saved.loaded)) =>
        /\ Val(saved.read) = to_json(saved.state)
        /\ \A key \in DOMAIN saved.state : Val(saved.loaded)[key] = saved.state[key]

C22_Witness ==
    /\ ~IsNone(saved) /\ ~IsNone(saved.read) /\ ~IsNone(saved.loaded)
    /\ ~IsNone(saved.state.last_policy_outcome)
    /\ saved.state.asked_slots # << >>
    /\ saved.state.missing_info # << >>
    /\ Val(saved.loaded) = saved.state

\* C23: the ticket number becomes non-null only in a turn whose decision is
\* approved and that holds the customer's name, pickup address and phone, and a
\* ticket number once assigned is the same after every later turn.
C23_TicketAssignedOnce ==
    [][/\ (IsNone(case.ticket_number) /\ ~IsNone(case'.ticket_number)) =>
            /\ out'.decision = "approved"
            /\ case'.decision = Some("approved")
            /\ ~IsNone(case'.customer_name)
            /\ ~IsNone(case'.pickup_address_json)
            /\ ~IsNone(case'.customer_phone)
       /\ ~IsNone(case.ticket_number) => case'.ticket_number = case.ticket_number]_vars

\* A ticket drawn in one turn is still the case's ticket in later turns, which
\* drew another number.
C23_Witness ==
    /\ case.ticket_number = Some("31415926")
    /\ out.path = "decision"
    /\ out.reply = <<"Request #", "31415926", " created. Courier will contact you.">>
    /\ case.turn_count >= 7

\* C24: after any sequence of turns, days_since_purchase is null or a
\* non-negative integer, whether the follow-up parser or the extraction result
\* supplied it.
C24_DaysNonNegative ==
    IsNone(case.days_since_purchase) \/ Val(case.days_since_purchase) >= 0

\* The value the parser of a slot reads in a message (None when it reads none).
Answer(slot, message) ==
    CASE slot \in {"furniture_assembled", "defect_evidence_present"} -> Parsed[message].yes_no
      [] slot = "electronics_defect_claimed" -> Parsed[message].defect_claim
      [] slot \in {"days_since_purchase", "customer_name", "customer_phone",
                   "pickup_address_json", "intent", "category"} -> Parsed[message][slot]
      [] OTHER -> None

\* The case the follow-up parser is given in a turn with this message.
Pending(message) == note_emergency(bump_turn_count(case), message)

\* C25: the follow-up parser writes only the slot that last_question_slot names:
\* when the message parses the slot gets the parsed value and last_question_slot
\* is cleared, when it does not parse both are unchanged, and when
\* last_question_slot is null nothing changes.
C25_FollowupWritesOnlyItsSlot ==
    \A t \in TurnsOf(customer) :
        LET before == Pending(t.message)
            after == _apply_followup_parser(before, t.message)
        IN  IF IsNone(before.last_question_slot) THEN after = before
            ELSE LET slot == Val(before.last_question_slot)
                     value == Answer(slot, t.message)
                 IN  /\ \A f \in DOMAIN before \ {slot, "last_question_slot"} :
                            after[f] = before[f]
                     /\ ~IsNone(value) =>
                            after[slot] = value /\ IsNone(after.last_question_slot)
                     /\ IsNone(value) => after = before

\* The name was filled by the parser in an earlier turn, the address question is
\* pending, and the customer may answer it with a message that parses or one
\* that does not.
C25_Witness ==
    /\ ~IsNone(case.customer_name)
    /\ case.last_question_slot = Some("pickup_address_json")
    /\ \E t \in TurnsOf(customer) :
           IsNone(_apply_followup_parser(Pending(t.message), t.message).last_question_slot)
    /\ \E t \in TurnsOf(customer) :
           _apply_followup_parser(Pending(t.message), t.message) = Pending(t.message)

\* The case of a turn once the follow-up parser, the classifier and the
\* extraction have written to it, and whether one of the two calls failed.
Heard(t) == _apply_followup_parser(Pending(t.message), t.message)
Seen(t) == IF t.image.present /\ ~t.image.failed
           THEN _update_classification(Heard(t), t.image) ELSE Heard(t)
Failed(t) ==
    \/ t.image.present /\ t.image.failed
    \/ _should_run_nlu(Seen(t)) /\ t.nlu.failed
Understood(t) == IF _should_run_nlu(Seen(t)) THEN _update_nlu(Seen(t), t.nlu) ELSE Seen(t)
Result(t) == handle_turn(case, t.message, t.image, t.nlu, t.ticket)

\* The required slots in the order they are asked.
RequiredOrder ==
    <<"category", "intent", "days_since_purchase", "furniture_assembled",
      "electronics_defect_claimed", "defect_evidence_present",
      "customer_name", "pickup_address_json", "customer_phone">>
Missing(c) == {_missing_slots(c)[i] : i \in 1..Len(_missing_slots(c))}
Unasked(c) == {s \in Missing(c) : ~InSeq(s, _asked_slots(c))}
FirstOf(slots) ==
    RequiredOrder[CHOOSE i \in 1..Len(RequiredOrder) :
                     /\ RequiredOrder[i] \in slots
                     /\ \A j \in 1..(i - 1) : RequiredOrder[j] \notin slots]

\* The fields of the case other than these are the same in both cases.
SameExcept(c, d, fields) == \A f \in DOMAIN c \ fields : c[f] = d[f]

\* C26: below the turn budget, a turn with a missing slot not yet asked asks the
\* first such slot in the required order: it adds it to asked_slots, sets
\* last_question_slot to it and status to needs_info, and replies with its
\* question, also when the follow-up parser has just filled the slot asked before.
C26_AsksFirstUnaskedSlot ==
    \A t \in TurnsOf(customer) :
        (~Failed(t) /\ Understood(t).turn_count < TurnBudget /\ Unasked(Understood(t)) # {}) =>
            LET c == Understood(t)
                r == Result(t)
                slot == FirstOf(Unasked(c))
            IN  /\ r.out.path = "ask"
                /\ r.out.question = Some(slot)
                /\ r.out.next_question_slot = Some(slot)
                /\ r.out.reply = <<question(slot)>>
                /\ r.out.status = Some("needs_info")
                /\ r.case.status = Some("needs_info")
                /\ r.case.last_question_slot = Some(slot)
                /\ r.case.asked_slots = Some(Append(_asked_slots(c), slot))
                /\ SameExcept(r.case, c, {"status", "last_question_slot", "asked_slots"})

\* The name question was answered in the turn that went on to ask the address.
C26_Witness ==
    /\ out.path = "ask"
    /\ out.question = Some("pickup_address_json")
    /\ ~IsNone(case.customer_name)
    /\ case.last_question_slot = Some("pickup_address_json")
    /\ case.turn_count < TurnBudget

StallLine == <<"Thanks. I can proceed once the remaining detail is provided.">>

\* C27: below the turn budget, a turn whose missing slots have all been asked
\* replies with the stall line and asks nothing again: the stall step leaves
\* asked_slots, last_question_slot, status, decision, retention_step and
\* discount_percent (and every other field) as they were.
C27_StallAsksNothing ==
    \A t \in TurnsOf(customer) :
        (/\ ~Failed(t)
         /\ Understood(t).turn_count < TurnBudget
         /\ Missing(Understood(t)) # {}
         /\ Unasked(Understood(t)) = {}) =>
            LET c == Understood(t)
                r == Result(t)
            IN  /\ r.out.path = "stall"
                /\ r.out.reply = StallLine
                /\ IsNone(r.out.question)
                /\ r.out.status = c.status
                /\ r.case = c

C27_Witness ==
    /\ out.path = "stall"
    /\ out.reply = StallLine
    /\ case.turn_count < TurnBudget
    /\ Missing(case) # {}
    /\ Unasked(case) = {}

\* C28: a turn in which a required slot is still missing does not run the
\* decision tree or the retention ladder: decision, reason, retention_step,
\* discount_percent and ticket_number are as they were before the turn, and
\* status is not set to approved, retention or awaiting_evidence.
C28_NoDecisionWhileMissing ==
    \A t \in TurnsOf(customer) :
        (~Failed(t) /\ Missing(Understood(t)) # {}) =>
            LET r == Result(t)
            IN  /\ r.out.path \in {"fallback", "ask", "stall"}
                /\ r.out.decision = "none"
                /\ \A f \in {"decision", "reason", "retention_step", "discount_percent",
                             "ticket_number"} : r.case[f] = case[f]
                /\ r.case.status \in {case.status, Some("needs_info")}

\* A turn at the turn budget with a slot still missing: the fallback was taken
\* and no decision was made.
C28_Witness ==
    /\ out.path = "fallback"
    /\ case.turn_count >= TurnBudget
    /\ Missing(case) # {}
    /\ IsNone(case.decision)
    /\ IsNone(case.retention_step)

\* C29: in a turn with an image, the classifier's category is written to the
\* case only if needs_clarification is false, the confidence is at least 0.70
\* and the category is one of the declared categories; otherwise the
\* classification step changes no field of the case.
C29_ClassificationGate ==
    \A t \in TurnsOf(customer) :
        (t.image.present /\ ~t.image.failed) =>
            LET before == Heard(t)
                after == Seen(t)
                accepted == /\ ~t.image.needs_clarification
                            /\ t.image.confidence >= 70
                            /\ t.image.category \in {"FOOD", "FURNITURE", "ELECTRONICS", "ART"}
            IN  /\ accepted => after.category = Some(t.image.category)
                /\ ~accepted => after = before
                /\ SameExcept(after, before, {"category"})

\* The case holds a category and no intent: no message of this conversation
\* names a category and every extraction result that carries one carries an
\* intent too, so an accepted classification wrote it; a classification with
\* confidence below 0.70 would leave this case as it is.
C29_Witness ==
    /\ customer = "electronics"
    /\ case.category = Some("ELECTRONICS")
    /\ IsNone(case.intent)
    /\ \E t \in TurnsOf(customer) :
           /\ t.image.present /\ ~t.image.failed
           /\ Seen(t).category = Some(t.image.category)
    /\ \E h \in TurnsOf("furniture") :
           /\ h.image.present /\ h.image.confidence < 70
           /\ _update_classification(case, h.image) = case

Ladder == <<0, 6, 11, 20>>
StepBefore == IF IsNone(case.retention_step) THEN 0 ELSE Val(case.retention_step)

\* C30: a turn that enters the retention path without the emergency flag takes
\* retention_step from s (0 when unset) to min(s + 1, 4); after any retention
\* turn discount_percent is the ladder value of the new step (0, 6, 11, 20); and
\* a retention_step of 4 stays 4.
C30_RetentionLadder ==
    [][/\ (turns' = turns + 1 /\ out'.decision = "retention") =>
            /\ ~IsNone(case'.retention_step)
            /\ Val(case'.retention_step) \in 1..4
            /\ case'.discount_percent = Some(Ladder[Val(case'.retention_step)])
            /\ case'.emergency_trigger # Some(TRUE) =>
                   Val(case'.retention_step) = Min(StepBefore + 1, 4)
       /\ case.retention_step = Some(4) => case'.retention_step = Some(4)]_vars

\* The ladder was climbed to its last step, one retention turn at a time,
\* without the emergency flag.
C30_Witness ==
    /\ out.decision = "retention"
    /\ case.retention_step = Some(4)
    /\ case.discount_percent = Some(20)
    /\ case.emergency_trigger # Some(TRUE)
    /\ case.turn_count >= 5

EvidenceRequest == <<"Please provide a photo/video or clear defect symptoms.">>

\* C31: for an ELECTRONICS case with no missing slot, a defect not claimed gives
\* retention; a defect claimed without evidence sets status awaiting_evidence,
\* replies with the evidence request and leaves decision, retention_step,
\* discount_percent and ticket_number unchanged; a defect claimed with evidence
\* gives approved. No turn approves an ELECTRONICS case whose defect is not
\* claimed or whose evidence is not present.
C31_ElectronicsDecision ==
    \A t \in TurnsOf(customer) :
        (~Failed(t) /\ Understood(t).category = Some("ELECTRONICS")) =>
            LET c == Understood(t)
                r == Result(t)
            IN  /\ (Missing(c) = {} /\ c.electronics_defect_claimed = Some(FALSE)) =>
                       /\ r.out.decision = "retention"
                       /\ r.case.decision = Some("retention")
                       /\ r.case.status = Some("retention")
                /\ (/\ Missing(c) = {}
                    /\ c.electronics_defect_claimed = Some(TRUE)
                    /\ c.defect_evidence_present = Some(FALSE)) =>
                       /\ r.out.decision = "needs_evidence"
                       /\ r.case.status = Some("awaiting_evidence")
                       /\ r.out.reply = EvidenceRequest
                       /\ \A f \in {"decision", "retention_step", "discount_percent",
                                    "ticket_number"} : r.case[f] = case[f]
                /\ (/\ Missing(c) = {}
                    /\ c.electronics_defect_claimed = Some(TRUE)
                    /\ c.defect_evidence_present = Some(TRUE)) =>
                       /\ r.out.decision = "approved"
                       /\ r.case.decision = Some("approved")
                       /\ r.case.status = Some("approved")
                /\ r.out.decision = "approved" =>
                       /\ c.electronics_defect_claimed = Some(TRUE)
                       /\ c.defect_evidence_present = Some(TRUE)

\* The three outcomes of the electronics branch, each as the last turn left it.
C31_Witness ==
    /\ case.category = Some("ELECTRONICS")
    /\ Missing(case) = {}
    /\ case.electronics_defect_claimed = Some(TRUE)
    /\ case.defect_evidence_present = Some(FALSE)
    /\ out.decision = "needs_evidence"
    /\ case.status = Some("awaiting_evidence")
    /\ out.reply = EvidenceRequest
    /\ \E t \in TurnsOf(customer) : ~Failed(t) /\ Result(t).out.decision = "approved"
    /\ \E t \in TurnsOf(customer) : ~Failed(t) /\ Result(t).out.decision = "retention"

\* The purchase timing of a furniture case: the direct value when it is
\* non-null, else the days derived from the purchase date.
Timing(c) ==
    IF ~IsNone(c.days_since_purchase) THEN c.days_since_purchase
    ELSE _days_from_date(c.purchase_date_iso)

\* C32: for a FURNITURE case with no missing slot the effective days is the
\* direct days_since_purchase whenever it is non-null, from 0 up, else the days
\* derived from purchase_date_iso; the decision is needs_info exactly when the
\* effective days is unknown, retention when it is above 7 or the furniture is
\* assembled, and approved otherwise.
C32_FurnitureDecision ==
    \A t \in TurnsOf(customer) :
        (~Failed(t) /\ Understood(t).category = Some("FURNITURE")
                    /\ Missing(Understood(t)) = {}) =>
            LET c == Understood(t)
                r == Result(t)
                days == Timing(c)
            IN  r.out.decision =
                    IF IsNone(days) THEN "needs_info"
                    ELSE IF Val(days) > 7 THEN "retention"
                    ELSE IF c.furniture_assembled = Some(TRUE) THEN "retention"
                    ELSE "approved"

\* C33: for a FURNITURE case days_since_purchase is required unless a purchase
\* date is present, and whenever the purchase timing, direct or derived from the
\* date, is 7 days or less, furniture_assembled is required too: no turn
\* approves the case or sends it to retention while furniture_assembled is
\* unknown at such a timing.
C33_AssembledRequiredWithinWeek ==
    \A t \in TurnsOf(customer) :
        (~Failed(t) /\ Understood(t).category = Some("FURNITURE")) =>
            LET c == Understood(t)
                r == Result(t)
                days == Timing(c)
            IN  /\ (IsNone(c.days_since_purchase) /\ IsNone(c.purchase_date_iso)) =>
                       "days_since_purchase" \in Missing(c)
                /\ (~IsNone(days) /\ Val(days) <= 7 /\ IsNone(c.furniture_assembled)) =>
                       /\ "furniture_assembled" \in Missing(c)
                       /\ r.out.decision \notin {"approved", "retention"}

\* C34: emergency_trigger is sticky: once it is true it is true at the end of
\* every later turn, and a turn whose message sets it ends with it true,
\* whatever the message and the extraction result of the turn are.
C34_EmergencyIsSticky ==
    \A t \in TurnsOf(customer) :
        (~Failed(t) /\ (case.emergency_trigger = Some(TRUE) \/ Parsed[t.message].emergency)) =>
            Result(t).case.emergency_trigger = Some(TRUE)

\* C35: when a turn ends with the stall or the fallback reply, required slots
\* missing and all of them asked, last_question_slot names one of the missing
\* slots, so that the follow-up parser can fill it from the next answer.
C35_PendingQuestionWhileStalled ==
    (/\ out.path \in {"stall", "fallback"}
     /\ Missing(case) # {}
     /\ Unasked(case) = {}) =>
        /\ ~IsNone(case.last_question_slot)
        /\ Val(case.last_question_slot) \in Missing(case)

\* C36: there is at most one row of cases per session_id, also when two first
\* requests for a new session are handled at the same time.
C36_OneRowPerSession ==
    \A i, j \in 1..Len(saved) : saved[i].session_id = saved[j].session_id => i = j

StepOf(c) == IF IsNone(c.retention_step) THEN 0 ELSE Val(c.retention_step)

\* C37: retention_step and discount_percent are written only by a turn whose
\* decision is retention: a turn that ends approved, awaiting evidence or in
\* the furniture needs_info branch leaves both as they were; retention_step
\* never decreases and stays within 0..4 (0 when unset).
C37_OnlyRetentionWritesTheLadder ==
    [](StepOf(case) \in 0..4)
    /\ [][/\ (\/ case'.retention_step # case.retention_step
              \/ case'.discount_percent # case.discount_percent) =>
                 out'.decision = "retention"
          /\ StepOf(case') >= StepOf(case)]_vars

\* A case on the retention ladder went into a turn that asked for the defect
\* evidence, and a later turn can approve it: the step and the coupon are kept.
C37_Witness ==
    /\ out.decision = "needs_evidence"
    /\ case.status = Some("awaiting_evidence")
    /\ case.retention_step = Some(1)
    /\ case.discount_percent = Some(0)
    /\ \E t \in TurnsOf(customer) :
           /\ ~Failed(t)
           /\ Result(t).out.decision = "approved"
           /\ Result(t).case.retention_step = Some(1)


=============================================================================
